---- MODULE Spec2Model ----
(***************************************************************************)
(* Model of the usage-quota ledger (apps/billing) and of the webhook       *)
(* driven DM dispatch pipeline (apps/integrations) of turnflow_backend.    *)
(*                                                                         *)
(* SpecQuota : concurrent UsageTracker.check_and_increment calls           *)
(* Spec      : celery workers running process_comment_and_send_dm          *)
(***************************************************************************)
EXTENDS Integers, Sequences, FiniteSets, TLC

\* ------------------------------------------------------------------ bounds
NumQWorkers == 2      \* request threads calling the quota ledger
MaxCalls == 3         \* check_and_increment calls started in one behaviour
NumWorkers == 2       \* celery workers
MaxTasks == 3         \* tasks enqueued in one behaviour of Spec
MaxRouted == 2        \* tasks enqueued in one behaviour of SpecRouter
MaxTime == 2          \* hours the clock may advance
MaxDbFaults == 1      \* database errors injected in one behaviour
NumPThreads == 2      \* request threads of the monthly usage ledger
MaxPCalls == 3        \* usage calls started in one behaviour of SpecPeriods
MaxMonths == 1        \* months the calendar may advance
MaxFanTasks == 2      \* tasks enqueued in one behaviour of SpecFanout
MaxPosts == 2         \* webhook POSTs in one behaviour of SpecWebhook
MaxOwnerReqs == 2     \* owner requests in one behaviour of SpecOwner
MaxOwnerTasks == 2    \* tasks enqueued in one behaviour of SpecOwner
MaxGateTasks == 2     \* tasks enqueued in one behaviour of SpecUngated
MaxReadCalls == 3     \* usage calls started in one behaviour of SpecReads

\* --------------------------------------------------------------- variables
VARIABLES
    usage_counters,   \* usage_counters table: workspace -> row of the current period, or NoRow
    qpc,              \* position of each request thread inside check_and_increment
    qcall,            \* arguments of the call a thread is running
    qlocal,           \* the in-memory UsageCounter instance a thread loaded
    qcreated,         \* TRUE when the thread's transaction inserted the row (undone on rollback)
    qresult,          \* what the call returned / raised
    batch_base,       \* committed counters when the current group of concurrent calls began
    ncalls,           \* calls started so far
    now,              \* wall clock, in hours
    queue,            \* celery broker: tasks waiting for a worker
    delivered,        \* event -> number of tasks enqueued for it so far
    worker,           \* celery worker -> its position and locals inside the handler
    campaigns,        \* auto_dm_campaigns table
    sent_dm_logs,     \* sent_dm_logs table
    spam_filter,      \* SpamFilterConfig row of the connection
    spam_logs,        \* SpamCommentLog rows
    gateway_calls,    \* calls made to InstagramMessagingService.send_dm_via_comment
    handled,          \* worker -> how its last execution of the handler ended
    outcomes,         \* worker -> what its last _process_single_campaign call returned
    dbfaults,         \* database errors raised so far
    clock,            \* calendar clock, in months since year 0
    usage_rows,       \* usage_counters table with one row per (workspace, year, month)
    pthread,          \* request thread -> its position and locals inside the usage call
    pcalls,           \* usage calls started so far
    http_response,    \* what instagram_webhook answered to the last POST
    posts,            \* webhook POSTs received so far
    owner,            \* the campaign owner's API request in progress
    oreqs,            \* owner requests started so far
    classify_in,      \* arguments of a SpamDetectionService.is_spam call
    classify_out      \* what the call returned

qvars == <<usage_counters, qpc, qcall, qlocal, qcreated, qresult, batch_base, ncalls>>

dvars == <<now, queue, delivered, worker, campaigns, sent_dm_logs,
           spam_filter, spam_logs, gateway_calls, handled, outcomes, dbfaults>>

\* the usage ledger across calendar months
pvars == <<clock, usage_rows, pthread, pcalls>>

\* the webhook endpoint
wvars == <<http_response, posts>>

\* the campaign API
ovars == <<owner, oreqs>>

\* one call of the spam classifier
cvars == <<classify_in, classify_out>>

xvars == <<pvars, wvars, ovars, cvars>>

vars == <<usage_counters, qpc, qcall, qlocal, qcreated, qresult, batch_base, ncalls,
          now, queue, delivered, worker, campaigns, sent_dm_logs,
          spam_filter, spam_logs, gateway_calls, handled, outcomes, dbfaults,
          clock, usage_rows, pthread, pcalls, http_response, posts, owner, oreqs,
          classify_in, classify_out>>

\* ------------------------------------------------------------- quota ledger
NoRow == [absent |-> TRUE]
NoCall == [none |-> TRUE]
NoResult == [status |-> "none"]

QWorkers == 1..NumQWorkers
Workspaces == {"ws_starter", "ws_enterprise"}
Metrics == {"comments_collected", "dm_sent"}
\* amounts a caller passes: test_increment forwards request.data["amount"] unvalidated
Amounts == {-1, 1, 2, 999}

\* Workspace.plan of the two tenants
WorkspacePlan(ws) == IF ws = "ws_starter" THEN "starter" ELSE "enterprise"

\* PlanLimits.LIMITS restricted to the two metered keys
LIMITS ==
    [starter |-> [comments_collected_per_month |-> 1000, dm_sent_per_month |-> 100],
     pro |-> [comments_collected_per_month |-> 10000, dm_sent_per_month |-> 1000],
     enterprise |-> [comments_collected_per_month |-> -1, dm_sent_per_month |-> -1]]

PerMonth(metric) ==
    IF metric = "comments_collected" THEN "comments_collected_per_month" ELSE "dm_sent_per_month"

\* PlanLimits.get_limit(plan, f"{metric}_per_month")
get_limit(plan, metric) ==
    LET table == IF plan \in DOMAIN LIMITS THEN LIMITS[plan] ELSE LIMITS["starter"]
    IN table[PerMonth(metric)]

check_limit_no_unlimited(row, plan, metric, amount) ==
    (row[metric] + amount) <= get_limit(plan, metric)

check_limit_off_by_one(row, plan, metric, amount) ==
    LET limit == get_limit(plan, metric)
    IN IF limit = -1 THEN TRUE ELSE (row[metric] + amount) <= limit + 1

\* UsageCounter.check_limit on an in-memory row
check_limit(row, plan, metric, amount) ==
    LET limit == get_limit(plan, metric)
    IN IF limit = -1 THEN TRUE ELSE (row[metric] + amount) <= limit

ZeroRow == [comments_collected |-> 0, dm_sent |-> 0]

\* rows other transactions can see: an insert is invisible until its transaction commits
Committed(ws) ==
    IF \E w \in QWorkers : qcreated[w] /\ qcall[w] # NoCall /\ qcall[w].workspace = ws
    THEN NoRow
    ELSE usage_counters[ws]

QInit ==
    /\ usage_counters = [ws \in Workspaces |-> NoRow]
    /\ qpc = [w \in QWorkers |-> "idle"]
    /\ qcall = [w \in QWorkers |-> NoCall]
    /\ qlocal = [w \in QWorkers |-> NoRow]
    /\ qcreated = [w \in QWorkers |-> FALSE]
    /\ qresult = [w \in QWorkers |-> NoResult]
    /\ batch_base = [ws \in Workspaces |-> NoRow]
    /\ ncalls = 0

\* BillingViewSet.test_increment up to the call of check_and_increment
test_increment(w, ws, metric, amount) ==
    /\ qpc[w] = "idle"
    /\ ncalls < MaxCalls
    /\ qpc' = [qpc EXCEPT ![w] = "called"]
    /\ qcall' = [qcall EXCEPT ![w] = [workspace |-> ws, metric |-> metric, amount |-> amount]]
    /\ ncalls' = ncalls + 1
    /\ UNCHANGED <<usage_counters, qlocal, qcreated, qresult, batch_base>>
    /\ UNCHANGED <<dvars, xvars>>

\* UsageCounter.get_current_period inside transaction.atomic(): get_or_create.
\* A concurrent uncommitted insert of the same key blocks the caller on the
\* unique index until that transaction ends.
get_current_period(w) ==
    /\ qpc[w] = "called"
    /\ LET ws == qcall[w].workspace
       IN /\ ~ \E o \in QWorkers : o # w /\ qcreated[o] /\ qcall[o].workspace = ws
          /\ IF usage_counters[ws] = NoRow
             THEN /\ usage_counters' = [usage_counters EXCEPT ![ws] = ZeroRow]
                  /\ qcreated' = [qcreated EXCEPT ![w] = TRUE]
                  /\ qlocal' = [qlocal EXCEPT ![w] = ZeroRow]
             ELSE /\ qlocal' = [qlocal EXCEPT ![w] = usage_counters[ws]]
                  /\ UNCHANGED <<usage_counters, qcreated>>
    /\ qpc' = [qpc EXCEPT ![w] = "loaded"]
    /\ UNCHANGED <<qcall, qresult, batch_base, ncalls>>
    /\ UNCHANGED <<dvars, xvars>>

\* check_and_increment, "if not counter.check_limit(...)": raise and roll back, or go on
check_step(w) ==
    /\ qpc[w] = "loaded"
    /\ LET c == qcall[w]
           plan == WorkspacePlan(c.workspace)
       IN IF check_limit(qlocal[w], plan, c.metric, c.amount)
          THEN /\ qpc' = [qpc EXCEPT ![w] = "checked"]
               /\ UNCHANGED <<usage_counters, qcreated, qresult>>
          ELSE /\ qpc' = [qpc EXCEPT ![w] = "done"]
               /\ qresult' = [qresult EXCEPT ![w] =
                     [status |-> "PlanLimitExceededError",
                      metric |-> c.metric,
                      limit |-> get_limit(plan, c.metric),
                      current |-> qlocal[w][c.metric],
                      plan |-> plan]]
               \* the exception leaves the atomic block: the insert is rolled back
               /\ usage_counters' = IF qcreated[w]
                                    THEN [usage_counters EXCEPT ![c.workspace] = NoRow]
                                    ELSE usage_counters
               /\ qcreated' = [qcreated EXCEPT ![w] = FALSE]
    /\ UNCHANGED <<qcall, qlocal, batch_base, ncalls>>
    /\ UNCHANGED <<dvars, xvars>>

\* UsageCounter.increment: in-memory value + amount, save(update_fields=[metric]); commit
increment(w) ==
    /\ qpc[w] = "checked"
    /\ LET c == qcall[w]
           newval == qlocal[w][c.metric] + c.amount
       IN /\ qlocal' = [qlocal EXCEPT ![w][c.metric] = newval]
          /\ usage_counters' = [usage_counters EXCEPT ![c.workspace][c.metric] = newval]
    /\ qcreated' = [qcreated EXCEPT ![w] = FALSE]
    /\ qresult' = [qresult EXCEPT ![w] = [status |-> "ok"]]
    /\ qpc' = [qpc EXCEPT ![w] = "done"]
    /\ UNCHANGED <<qcall, batch_base, ncalls>>
    /\ UNCHANGED <<dvars, xvars>>

\* every request has returned: the next group of concurrent requests arrives
next_requests ==
    /\ \A w \in QWorkers : qpc[w] \in {"idle", "done"}
    /\ \E w \in QWorkers : qpc[w] = "done"
    /\ qpc' = [w \in QWorkers |-> "idle"]
    /\ qcall' = [w \in QWorkers |-> NoCall]
    /\ qlocal' = [w \in QWorkers |-> NoRow]
    /\ qresult' = [w \in QWorkers |-> NoResult]
    /\ batch_base' = usage_counters
    /\ UNCHANGED <<usage_counters, qcreated, ncalls>>
    /\ UNCHANGED <<dvars, xvars>>

QNext ==
    \/ \E w \in QWorkers, ws \in Workspaces, m \in Metrics, a \in Amounts :
          test_increment(w, ws, m, a)
    \/ \E w \in QWorkers : get_current_period(w)
    \/ \E w \in QWorkers : check_step(w)
    \/ \E w \in QWorkers : increment(w)
    \/ next_requests

\* ---------------------------------------------- usage ledger across months
PThreads == 1..NumPThreads
POps == {"check_and_increment", "get_usage"}
\* the metric the monthly ledger is exercised with
PMetrics == {"dm_sent"}
\* amounts that stay within the starter plan's dm_sent limit, and one that does not
PAmounts == {1, 101}

\* December 2024, in months since year 0
Clock0 == 2024 * 12 + 11

period_of_same_year(t) == [year |-> Clock0 \div 12, month |-> (t % 12) + 1]

\* now.year, now.month of timezone.now()
period_of(t) == [year |-> t \div 12, month |-> (t % 12) + 1]

IdleP ==
    [pc |-> "idle", call |-> 0, op |-> "", workspace |-> "", metric |-> "", amount |-> 0,
     started |-> 0, explicit |-> FALSE, year |-> 0, month |-> 0, local |-> NoRow, result |-> ""]

KeyRows(rows, ws, year, month) ==
    {r \in rows : r.workspace = ws /\ r.year = year /\ r.month = month}

no_unique_together(rows, ws, year, month) == TRUE

\* UsageCounter.Meta.unique_together: may a row with this key be inserted
unique_together(rows, ws, year, month) == KeyRows(rows, ws, year, month) = {}

\* READ COMMITTED: the rows thread w can read
VisibleRows(w) == {r \in usage_rows : r.txn \in {0, w}}

\* the model instance a query returns
Loaded(r) == [id |-> r.id, comments_collected |-> r.comments_collected, dm_sent |-> r.dm_sent]

every_op_increments(op) == TRUE

\* does the operation run inside transaction.atomic() and go on to check and
\* increment; check_limit and get_usage return after reading the row
InAtomic(op) == op = "check_and_increment"

\* leaving the atomic block: commit makes the thread's rows visible, rollback drops them
Commit(rows, w) == {IF r.txn = w THEN [r EXCEPT !.txn = 0] ELSE r : r \in rows}
Rollback(rows, w) == {r \in rows : r.txn # w}

PInit ==
    /\ clock = Clock0
    /\ usage_rows = {}
    /\ pthread = [w \in PThreads |-> IdleP]
    /\ pcalls = 0

\* a request enters UsageCounter.get_current_period: now = timezone.now()
usage_call(w, op, ws, metric, amount) ==
    /\ pthread[w].pc \in {"idle", "done"}
    /\ pcalls < MaxPCalls
    /\ pcalls' = pcalls + 1
    /\ pthread' = [pthread EXCEPT ![w] =
          [IdleP EXCEPT !.pc = "get", !.call = pcalls + 1, !.op = op, !.workspace = ws, !.metric = metric,
                        !.amount = amount, !.started = clock,
                        !.year = period_of(clock).year, !.month = period_of(clock).month]]
    /\ UNCHANGED <<clock, usage_rows>>
    /\ UNCHANGED <<qvars, dvars, wvars, ovars, cvars>>

\* after get_current_period: check_and_increment goes on to check_limit,
\* UsageTracker.check_limit returns counter.check_limit(metric, amount), get_usage returns
AfterGet(w, row) ==
    LET t == pthread[w]
    IN [t EXCEPT !.local = Loaded(row),
                 !.pc = IF InAtomic(t.op) THEN "check" ELSE "done",
                 !.result = IF InAtomic(t.op) THEN ""
                            ELSE IF t.op # "check_limit" THEN "ok"
                            ELSE IF check_limit(Loaded(row), WorkspacePlan(t.workspace),
                                                t.metric, t.amount)
                            THEN "True" ELSE "False"]

\* QuerySet.get_or_create, first step: self.get(**kwargs)
get_or_create_get(w) ==
    /\ pthread[w].pc = "get"
    /\ LET t == pthread[w]
           found == KeyRows(VisibleRows(w), t.workspace, t.year, t.month)
       IN IF found = {}
          THEN /\ pthread' = [pthread EXCEPT ![w].pc = "create"]
               /\ UNCHANGED usage_rows
          ELSE IF Cardinality(found) > 1
          THEN \* MultipleObjectsReturned leaves the call (and the atomic block)
               /\ pthread' = [pthread EXCEPT ![w].pc = "done",
                                             ![w].result = "MultipleObjectsReturned"]
               /\ usage_rows' = Rollback(usage_rows, w)
          ELSE /\ pthread' = [pthread EXCEPT ![w] = AfterGet(w, CHOOSE r \in found : TRUE)]
               /\ UNCHANGED usage_rows
    /\ UNCHANGED <<clock, pcalls>>
    /\ UNCHANGED <<qvars, dvars, wvars, ovars, cvars>>

\* get_or_create, second step: self.create(**params) with the defaults. An
\* uncommitted row of another transaction with the same key makes the insert
\* wait on the unique index; a committed one makes it raise IntegrityError.
get_or_create_create(w) ==
    /\ pthread[w].pc = "create"
    /\ LET t == pthread[w]
           \* id = uuid.uuid4(): the call's number stands for the fresh key
           row == [id |-> t.call,
                   workspace |-> t.workspace, year |-> t.year, month |-> t.month,
                   comments_collected |-> 0, dm_sent |-> 0,
                   txn |-> IF InAtomic(t.op) THEN w ELSE 0]
       IN IF unique_together(usage_rows, t.workspace, t.year, t.month)
          THEN /\ usage_rows' = usage_rows \cup {row}
               /\ pthread' = [pthread EXCEPT ![w] = AfterGet(w, row)]
          ELSE /\ \A r \in KeyRows(usage_rows, t.workspace, t.year, t.month) : r.txn = 0
               /\ pthread' = [pthread EXCEPT ![w].pc = "reget"]
               /\ UNCHANGED usage_rows
    /\ UNCHANGED <<clock, pcalls>>
    /\ UNCHANGED <<qvars, dvars, wvars, ovars, cvars>>

\* get_or_create, after IntegrityError: return self.get(**kwargs), False
get_or_create_reget(w) ==
    /\ pthread[w].pc = "reget"
    /\ LET t == pthread[w]
           found == KeyRows(VisibleRows(w), t.workspace, t.year, t.month)
       IN /\ found # {}
          /\ pthread' = [pthread EXCEPT ![w] = AfterGet(w, CHOOSE r \in found : TRUE)]
    /\ UNCHANGED <<clock, usage_rows, pcalls>>
    /\ UNCHANGED <<qvars, dvars, wvars, ovars, cvars>>

\* check_and_increment: counter.check_limit(metric, amount), raise or go on
period_check(w) ==
    /\ pthread[w].pc = "check"
    /\ LET t == pthread[w]
       IN IF check_limit(t.local, WorkspacePlan(t.workspace), t.metric, t.amount)
          THEN /\ pthread' = [pthread EXCEPT ![w].pc = "save"]
               /\ UNCHANGED usage_rows
          ELSE /\ pthread' = [pthread EXCEPT ![w].pc = "done",
                                             ![w].result = "PlanLimitExceededError"]
               /\ usage_rows' = Rollback(usage_rows, w)
    /\ UNCHANGED <<clock, pcalls>>
    /\ UNCHANGED <<qvars, dvars, wvars, ovars, cvars>>

\* counter.increment(metric, amount): UPDATE ... WHERE id = counter.id, then commit
period_increment(w) ==
    /\ pthread[w].pc = "save"
    /\ LET t == pthread[w]
           newval == t.local[t.metric] + t.amount
           saved == {IF r.id = t.local.id THEN [r EXCEPT ![t.metric] = newval] ELSE r :
                        r \in usage_rows}
       IN /\ usage_rows' = Commit(saved, w)
          /\ pthread' = [pthread EXCEPT ![w].pc = "done", ![w].result = "ok",
                                        ![w].local[t.metric] = newval]
    /\ UNCHANGED <<clock, pcalls>>
    /\ UNCHANGED <<qvars, dvars, wvars, ovars, cvars>>

\* the calendar month ends
next_month ==
    /\ clock < Clock0 + MaxMonths
    /\ clock' = clock + 1
    /\ UNCHANGED <<usage_rows, pthread, pcalls>>
    /\ UNCHANGED <<qvars, dvars, wvars, ovars, cvars>>

\* the calls of UsageTracker that SpecReads makes for the current month
ReadOps == {"check_and_increment", "check_limit", "get_usage"}
\* a past and a future month, in months since year 0
HistoryMonths == {Clock0 - 1, Clock0 + 2}

\* UsageTracker.check_and_increment / check_limit / get_usage(workspace)
usage_read(w, op, metric, amount) ==
    /\ pthread[w].pc \in {"idle", "done"}
    /\ pcalls < MaxReadCalls
    /\ op = "get_usage" => amount = 0
    /\ pcalls' = pcalls + 1
    /\ pthread' = [pthread EXCEPT ![w] =
          [IdleP EXCEPT !.pc = "get", !.call = pcalls + 1, !.op = op,
                        !.workspace = "ws_starter", !.metric = metric,
                        !.amount = amount, !.started = clock,
                        !.year = period_of(clock).year, !.month = period_of(clock).month]]
    /\ UNCHANGED <<clock, usage_rows>>
    /\ UNCHANGED <<qvars, dvars, wvars, ovars, cvars>>

\* UsageTracker.get_usage(workspace, year, month)
usage_history(w, year, month) ==
    /\ pthread[w].pc \in {"idle", "done"}
    /\ pcalls < MaxReadCalls
    /\ pcalls' = pcalls + 1
    /\ pthread' = [pthread EXCEPT ![w] =
          [IdleP EXCEPT !.pc = "get", !.call = pcalls + 1, !.op = "get_usage",
                        !.workspace = "ws_starter", !.metric = "dm_sent",
                        !.started = clock, !.explicit = TRUE,
                        !.year = year, !.month = month]]
    /\ UNCHANGED <<clock, usage_rows>>
    /\ UNCHANGED <<qvars, dvars, wvars, ovars, cvars>>

ReadNext ==
    \/ \E w \in PThreads, op \in ReadOps, a \in {0, 1} : usage_read(w, op, "dm_sent", a)
    \/ \E w \in PThreads, t \in HistoryMonths :
          usage_history(w, period_of(t).year, period_of(t).month)
    \/ \E w \in PThreads : get_or_create_get(w)
    \/ \E w \in PThreads : get_or_create_create(w)
    \/ \E w \in PThreads : get_or_create_reget(w)
    \/ \E w \in PThreads : period_check(w)
    \/ \E w \in PThreads : period_increment(w)
    \/ next_month

PNext ==
    \/ \E w \in PThreads, op \in POps, ws \in Workspaces, m \in PMetrics, a \in PAmounts :
          usage_call(w, op, ws, m, a)
    \/ \E w \in PThreads : get_or_create_get(w)
    \/ \E w \in PThreads : get_or_create_create(w)
    \/ \E w \in PThreads : get_or_create_reget(w)
    \/ \E w \in PThreads : period_check(w)
    \/ \E w \in PThreads : period_increment(w)
    \/ next_month

\* ---------------------------------------------------------- spam classifier
\* A text is a sequence of one-character strings.
ToLower == [A |-> "a", B |-> "b", C |-> "c", D |-> "d", E |-> "e", F |-> "f", G |-> "g",
            H |-> "h", I |-> "i", J |-> "j", K |-> "k", L |-> "l", M |-> "m", N |-> "n",
            O |-> "o", P |-> "p", Q |-> "q", R |-> "r", S |-> "s", T |-> "t", U |-> "u",
            V |-> "v", W |-> "w", X |-> "x", Y |-> "y", Z |-> "z"]

\* str.lower()
lower(text) == [i \in 1..Len(text) |-> IF text[i] \in DOMAIN ToLower THEN ToLower[text[i]] ELSE text[i]]

AsciiLower == {ToLower[k] : k \in DOMAIN ToLower}
AsciiDigits == {"0", "1", "2", "3", "4", "5", "6", "7", "8", "9"}
\* [a-zA-Z0-9-]
LabelChars == AsciiLower \cup DOMAIN ToLower \cup AsciiDigits \cup {"-"}
Whitespace == {" "}
\* characters that are not \w; every other character of a text is a word character
NonWordChars == {" ", ".", "-", ":", "/", "!", ",", "?"}

IsWordAt(text, i) == i >= 1 /\ i <= Len(text) /\ text[i] \notin NonWordChars

\* \b between positions i-1 and i
WordBoundary(text, i) == IsWordAt(text, i - 1) # IsWordAt(text, i)

\* text[i..] starts with pat
StartsAt(text, i, pat) ==
    /\ i + Len(pat) - 1 <= Len(text)
    /\ \A k \in 1..Len(pat) : text[i + k - 1] = pat[k]

\* the keyword "in" operator of str
Contains(text, pat) == \E i \in 1..(Len(text) + 1) : StartsAt(text, i, pat)

TLDs == {<<"c", "o", "m">>, <<"n", "e", "t">>, <<"o", "r", "g">>,
         <<"c", "o", ".", "k", "r">>, <<"a", "s", "i", "a">>, <<"i", "o">>,
         <<"a", "p", "p">>, <<"x", "y", "z">>, <<"i", "n", "f", "o">>, <<"b", "i", "z">>}

HttpPrefixes == {<<"h", "t", "t", "p", ":", "/", "/">>, <<"h", "t", "t", "p", "s", ":", "/", "/">>}

\* SpamDetectionService._contains_url
_contains_url(text) ==
    \/ \E i \in 1..Len(text), pre \in HttpPrefixes :
          /\ StartsAt(text, i, pre)
          /\ i + Len(pre) <= Len(text)
          /\ text[i + Len(pre)] \notin Whitespace
    \/ \E i \in 1..Len(text), j \in 1..Len(text), tld \in TLDs :
          /\ i <= j
          /\ WordBoundary(text, i)
          /\ \A k \in i..j : text[k] \in LabelChars
          /\ j + 1 <= Len(text) /\ text[j + 1] = "."
          /\ StartsAt(text, j + 2, tld)
          /\ WordBoundary(text, j + 2 + Len(tld))

\* SpamDetectionService.DEFAULT_SPAM_KEYWORDS, one token per syllable
DEFAULT_SPAM_KEYWORDS ==
    << <<"a*", "i*", "dol*">>, <<"ju*", "so*", "chang*">>, <<"sa*", "geon*">>,
       <<"won*", "bon*", "yeong*", "sang*">>, <<"sil*", "si*", "gan*", "geom*", "saek*">> >>

RECURSIVE keyword_reasons(_, _)
keyword_reasons(text_lower, keywords) ==
    IF keywords = <<>> THEN <<>>
    ELSE (IF Contains(text_lower, lower(Head(keywords)))
          THEN << <<"keyword", Head(keywords)>> >> ELSE <<>>)
         \o keyword_reasons(text_lower, Tail(keywords))

\* SpamDetectionService.is_spam: the list of reasons; the comment is spam iff it is not empty
spam_reasons(text, spam_keywords, check_urls) ==
    IF text = <<>> THEN <<>>
    ELSE LET text_lower == lower(text)
             keywords_to_check == IF spam_keywords # <<>> THEN spam_keywords
                                  ELSE DEFAULT_SPAM_KEYWORDS
         IN (IF check_urls /\ _contains_url(text_lower) THEN << <<"contains_url">> >> ELSE <<>>)
            \o keyword_reasons(text_lower, keywords_to_check)

is_spam(text, spam_keywords, check_urls) == Len(spam_reasons(text, spam_keywords, check_urls)) > 0

\* texts handed to is_spam
ClassifyTexts ==
    { <<>>,
      <<"h", "i">>,
      <<"B", "u", "y">>,
      <<"x", ".", "i", "o">>,
      <<"B", "u", "y", " ", "x", ".", "i", "o">>,
      <<"h", "t", "t", "p", ":", "/", "/", "a">>,
      <<"a*", "i*", "dol*">>,
      <<"b", "u", "y", " ", "sa*", "geon*">> }

\* spam_keywords lists handed to is_spam
ClassifyKeywords ==
    { <<>>,
      << <<"b", "u", "y">> >>,
      << <<"U", "Y">>, <<"b", "u">> >>,
      << <<"h", "i">>, <<"x">>, <<"b", "u", "y">> >>,
      << <<"a*", "i*", "dol*">> >>,
      << <<>> >> }

\* text is None, or a string
ClassifyInputs ==
    [text_null : {FALSE}, text : ClassifyTexts, spam_keywords : ClassifyKeywords,
     check_urls : BOOLEAN]
    \cup [text_null : {TRUE}, text : {<<>>}, spam_keywords : ClassifyKeywords,
          check_urls : BOOLEAN]

NoClassifyCall ==
    [text_null |-> TRUE, text |-> <<>>, spam_keywords |-> <<>>, check_urls |-> FALSE]

NotClassified == [called |-> FALSE]

\* no call of the classifier is under way
CInit ==
    /\ classify_in = NoClassifyCall
    /\ classify_out = NotClassified

\* SpamDetectionService.is_spam(text, spam_keywords, check_urls) returns
is_spam_call ==
    /\ classify_out = NotClassified
    /\ classify_out' =
          IF classify_in.text_null
          THEN [called |-> TRUE, is_spam |-> FALSE, reasons |-> <<>>]    \* "if not text"
          ELSE [called |-> TRUE,
                is_spam |-> is_spam(classify_in.text, classify_in.spam_keywords,
                                    classify_in.check_urls),
                reasons |-> spam_reasons(classify_in.text, classify_in.spam_keywords,
                                         classify_in.check_urls)]
    /\ UNCHANGED classify_in
    /\ UNCHANGED <<qvars, dvars, pvars, wvars, ovars>>

CNext == is_spam_call

\* ------------------------------------------------------------------ events
\* JSON values of a payload: a missing key, null, or an object
Absent == [t |-> "absent"]
JsonNull == [t |-> "null"]
Obj(fields) == [t |-> "obj", f |-> fields]

\* the strings "" stand for a missing or empty member of an object
Comment(id, text, from, media) ==
    [field |-> "comments", value |-> Obj([id |-> id, text |-> text, from |-> from, media |-> media])]

User(id, username) == Obj([id |-> id, username |-> username])
Media(id) == Obj([id |-> id])

\* the payloads the broker may carry, by the name used for them in the model
Payloads ==
    [cm1 |-> Comment("cm1", <<"h", "i">>, User("u1", "ann"), Media("m1")),
     cm2 |-> Comment("cm2", <<"o", "k">>, User("u2", "bob"), Media("m1")),
     cm3 |-> Comment("cm3", <<"B", "u", "y">>, User("u3", "eve"), Media("m1")),
     cm4 |-> Comment("cm4", <<"h", "i">>, User("u4", ""), Media("m1")),
     cm5 |-> Comment("cm5", <<"h", "i">>, JsonNull, Media("m1")),
     cm6 |-> Comment("cm6", <<"h", "i">>, User("u6", "dan"), Media("m2")),
     cm7 |-> [field |-> "mentions",
              value |-> Obj([id |-> "cm7", text |-> <<>>, from |-> Absent, media |-> Absent])],
     cm8 |-> [field |-> "comments", value |-> JsonNull]]

Events == DOMAIN Payloads

\* dict.get(key, {}) followed by .get(member): "" when the key is missing,
\* "raise" (AttributeError) when the key holds null
Member(v, name) ==
    IF v = Absent THEN ""
    ELSE IF v = JsonNull THEN "raise"
    ELSE v.f[name]

comment_id_of(e) == e.value.f.id
comment_text_of(e) == e.value.f.text
from_user_id_of(e) == Member(e.value.f.from, "id")
from_username_of(e) == Member(e.value.f.from, "username")
media_id_of(e) == Member(e.value.f.media, "id")

\* lines 48-59 raise AttributeError
parse_raises(e) ==
    \/ e.value = JsonNull
    \/ e.value.f.from = JsonNull
    \/ e.value.f.media = JsonNull

\* "if not all([comment_id, from_user_id, from_username, media_id])"
missing_required(e) ==
    \/ comment_id_of(e) = ""
    \/ from_user_id_of(e) = ""
    \/ from_username_of(e) = ""
    \/ media_id_of(e) = ""

\* ------------------------------------------------------------------ tables
Workers == 1..NumWorkers
CampaignIds == {"cA", "cB"}
\* Meta.ordering = ["-created_at"]: cB was created after cA
CampaignOrder == <<"cB", "cA">>

\* timedelta(hours=1) in can_send_more, in clock units
Hour == 1

\* retry_kwargs={"max_retries": 3, ...} of the shared_task decorator
max_retries == 3

NoTask == [none |-> TRUE]
NoLog == <<>>
NoFilter == [absent |-> TRUE]
NoOutcome == [status |-> "none"]

IdleWorker ==
    [pc |-> "idle", task |-> NoTask, camps |-> <<>>, can |-> FALSE, pre |-> "none",
     log |-> NoLog, results |-> <<>>]

\* cA watches media m1; cB watches media m2 and has been paused by its owner
InitCampaigns(conn_status) ==
    [c \in CampaignIds |->
        [media_id |-> IF c = "cA" THEN "m1" ELSE "m2",
         status |-> IF c = "cA" THEN "active" ELSE "paused",
         max_sends_per_hour |-> IF c = "cA" THEN 1 ELSE 2,
         total_sent |-> 0,
         total_failed |-> 0,
         \* IGAccountConnection.status of the campaign's ig_connection
         conn_status |-> conn_status]]

InitSpamFilter(status) ==
    [status |-> status,
     spam_keywords |-> << <<"b", "u", "y">> >>,
     block_urls |-> TRUE,
     total_spam_detected |-> 0,
     total_hidden |-> 0]

\* ---------------------------------------------------------- model helpers
should_retry_once_more(retries) == retries <= max_retries

\* autoretry_for=(Exception,): Task.retry re-queues while request.retries < max_retries
should_retry(retries) == retries < max_retries

\* the broker holds a bag of tasks
Put(q, t) == IF t \in DOMAIN q THEN [q EXCEPT ![t] = @ + 1] ELSE q @@ (t :> 1)
Take(q, t) == IF q[t] > 1 THEN [q EXCEPT ![t] = @ - 1] ELSE [x \in DOMAIN q \ {t} |-> q[x]]

\* broker content after the handler raised while running task t
AfterRaise(q, t) ==
    IF should_retry(t.retries) THEN Put(q, [t EXCEPT !.retries = @ + 1]) ELSE q

\* how an execution of the handler ended; attempt is self.request.retries
Handled(t, status, reason, processed) ==
    [attempt |-> t.retries, status |-> status, reason |-> reason,
     processed_campaigns |-> processed,
     requeued |-> (status = "raised" /\ should_retry(t.retries))]

no_unique_campaign_comment(rows, campaign, comment_id) == TRUE

\* SentDMLog.Meta.constraints unique_campaign_comment: may a row for the pair be inserted
unique_campaign_comment(rows, campaign, comment_id) ==
    ~ \E r \in rows : r.campaign = campaign /\ r.comment_id = comment_id

PairRows(campaign, comment_id) ==
    {r \in sent_dm_logs : r.campaign = campaign /\ r.comment_id = comment_id}

\* IGAccountConnection.workspace: the tenant whose connection the campaigns use
CampaignWorkspace(c) == "ws_starter"

quota_allows_send_checked(counters, ws) ==
    counters[ws] = NoRow \/ check_limit(counters[ws], WorkspacePlan(ws), "dm_sent", 1)

\* lines 294-300: send_dm_via_comment is called with no UsageTracker call before it
quota_allows_send(counters, ws) == TRUE

can_send_more_calendar_hour(c, rows, t) ==
    IF c.status # "active" THEN FALSE
    ELSE Cardinality({r \in rows : r.campaign = c.id /\ r.created_at >= t}) < c.max_sends_per_hour

\* AutoDMCampaign.can_send_more on the loaded instance c against the live table
can_send_more(c, rows, t) ==
    IF c.status # "active" THEN FALSE
    ELSE LET one_hour_ago == t - Hour
             recent_sends == Cardinality({r \in rows : r.campaign = c.id /\ r.created_at >= one_hour_ago})
         IN recent_sends < c.max_sends_per_hour

\* the campaign whose connection the spam stage uses: filter(media_id=...).first()
first_campaign(media_id) ==
    LET idx == {i \in 1..Len(CampaignOrder) : campaigns[CampaignOrder[i]].media_id = media_id}
    IN IF idx = {} THEN "none"
       ELSE CampaignOrder[CHOOSE i \in idx : \A k \in idx : i <= k]

\* would _check_and_handle_spam classify the event as spam
classified_spam(e) ==
    /\ first_campaign(media_id_of(e)) # "none"
    /\ spam_filter # NoFilter
    /\ spam_filter.status = "active"
    /\ is_spam(comment_text_of(e), spam_filter.spam_keywords, spam_filter.block_urls)

\* AutoDMCampaign.objects.filter(media_id=..., status=ACTIVE).select_related("ig_connection")
RECURSIVE SelectActive(_, _)
SelectActive(order, media_id) ==
    IF order = <<>> THEN <<>>
    ELSE LET c == campaigns[Head(order)]
         IN (IF c.media_id = media_id /\ c.status = "active"
             THEN << [id |-> Head(order),
                      status |-> c.status,
                      max_sends_per_hour |-> c.max_sends_per_hour,
                      total_sent |-> c.total_sent,
                      total_failed |-> c.total_failed,
                      conn_status |-> c.conn_status] >>
             ELSE <<>>)
            \o SelectActive(Tail(order), media_id)

advance_abort_on_error(w, status) ==
    LET wk == worker[w]
        res == wk.results \o << [campaign |-> Head(wk.camps).id, status |-> status] >>
    IN IF Len(wk.camps) > 1 /\ status # "error"
       THEN /\ worker' = [worker EXCEPT ![w] =
                  [wk EXCEPT !.pc = "rate", !.camps = Tail(wk.camps), !.results = res,
                             !.can = FALSE, !.pre = "none", !.log = NoLog]]
            /\ UNCHANGED handled
       ELSE /\ worker' = [worker EXCEPT ![w] = IdleWorker]
            /\ handled' = [handled EXCEPT ![w] = Handled(wk.task, "completed", "", Len(res))]

\* worker w after _process_single_campaign returned for the head campaign:
\* results.append(result), then the next campaign or the handler's return
Advance(w, status) ==
    LET wk == worker[w]
        res == wk.results \o << [campaign |-> Head(wk.camps).id, status |-> status] >>
    IN IF Len(wk.camps) > 1
       THEN /\ worker' = [worker EXCEPT ![w] =
                  [wk EXCEPT !.pc = "rate", !.camps = Tail(wk.camps), !.results = res,
                             !.can = FALSE, !.pre = "none", !.log = NoLog]]
            /\ UNCHANGED handled
       ELSE /\ worker' = [worker EXCEPT ![w] = IdleWorker]
            /\ handled' = [handled EXCEPT ![w] = Handled(wk.task, "completed", "", Len(res))]

\* return from _process_single_campaign
Return(w, status, reason) ==
    /\ outcomes' = [outcomes EXCEPT ![w] =
          [campaign |-> Head(worker[w].camps).id,
           comment_id |-> comment_id_of(Payloads[worker[w].task.event]),
           status |-> status,
           reason |-> reason,
           pre |-> worker[w].pre,
           can |-> worker[w].can]]
    /\ Advance(w, status)

\* dm_log.save(update_fields=["status", ...]) of the row the worker created
SetLog(rows, key, status) ==
    {IF <<r.campaign, r.comment_id, r.seq>> = key THEN [r EXCEPT !.status = status] ELSE r : r \in rows}

\* ------------------------------------------------------- dispatch pipeline
DInitWith(conn_status, filter_status) ==
    /\ now = 0
    /\ queue = <<>>
    /\ delivered = [e \in Events |-> 0]
    /\ worker = [w \in Workers |-> IdleWorker]
    /\ campaigns = InitCampaigns(conn_status)
    /\ sent_dm_logs = {}
    /\ spam_filter = InitSpamFilter(filter_status)
    /\ spam_logs = {}
    /\ gateway_calls = {}
    /\ handled = [w \in Workers |-> NoOutcome]
    /\ outcomes = [w \in Workers |-> NoOutcome]
    /\ dbfaults = 0

\* the connection of the campaigns is healthy or has expired
DInit == \E cs \in {"active", "expired"} : DInitWith(cs, "active")

\* ... and the account's spam filter is switched on or off
RInit == \E cs \in {"active", "expired"}, st \in {"active", "inactive"} : DInitWith(cs, st)

RECURSIVE SumOver(_, _)
SumOver(f, keys) ==
    IF keys = {} THEN 0
    ELSE LET k == CHOOSE k \in keys : TRUE IN f[k] + SumOver(f, keys \ {k})

TotalDelivered == SumOver(delivered, Events)

\* process_comment_and_send_dm.delay(webhook_data): the same event may be queued again
delay(e, budget) ==
    /\ TotalDelivered < budget
    /\ delivered' = [delivered EXCEPT ![e] = @ + 1]
    /\ queue' = Put(queue, [event |-> e, retries |-> 0])
    /\ UNCHANGED <<now, worker, campaigns, sent_dm_logs, spam_filter,
                   spam_logs, gateway_calls, handled, outcomes, dbfaults>>
    /\ UNCHANGED <<qvars, xvars>>

\* time passes
tick ==
    /\ now < MaxTime
    /\ now' = now + 1
    /\ UNCHANGED <<queue, delivered, worker, campaigns, sent_dm_logs,
                   spam_filter, spam_logs, gateway_calls, handled, outcomes, dbfaults>>
    /\ UNCHANGED <<qvars, xvars>>

\* The ways through _check_and_handle_spam once the comment is classified as
\* spam (lines 168-225): the spam_log status left behind ("" = no row), the
\* counter increments, the database errors raised on the way, and the
\* is_spam value returned.
SpamPaths ==
    {[name |-> "hidden", log |-> "hidden", detected |-> 1, hidden |-> 1, faults |-> 0,
      is_spam |-> TRUE, status |-> "hidden"],
     [name |-> "hide_fails", log |-> "failed", detected |-> 1, hidden |-> 0, faults |-> 0,
      is_spam |-> TRUE, status |-> "failed_to_hide"],
     [name |-> "create_raises", log |-> "", detected |-> 0, hidden |-> 0, faults |-> 1,
      is_spam |-> FALSE, status |-> "error"],
     [name |-> "increment_spam_detected_raises", log |-> "detected", detected |-> 0,
      hidden |-> 0, faults |-> 1, is_spam |-> FALSE, status |-> "error"],
     [name |-> "mark_as_hidden_raises", log |-> "failed", detected |-> 1, hidden |-> 0,
      faults |-> 1, is_spam |-> TRUE, status |-> "failed_to_hide"],
     [name |-> "increment_hidden_raises", log |-> "failed", detected |-> 1, hidden |-> 0,
      faults |-> 1, is_spam |-> TRUE, status |-> "failed_to_hide"],
     [name |-> "hide_fails_mark_as_failed_raises", log |-> "detected", detected |-> 1,
      hidden |-> 0, faults |-> 1, is_spam |-> FALSE, status |-> "error"]}

\* the early returns of _check_and_handle_spam (lines 136-166)
NotSpamPath ==
    [name |-> "not_spam", log |-> "", detected |-> 0, hidden |-> 0, faults |-> 0,
     is_spam |-> FALSE, status |-> ""]

\* _check_and_handle_spam: the paths open to event e
_check_and_handle_spam(e) == IF classified_spam(e) THEN SpamPaths ELSE {NotSpamPath}

\* process_comment_and_send_dm up to the campaign loop (lines 36-91): a worker
\* takes a task, parses the payload, runs the spam stage and loads the active
\* campaigns of the media
task_start(w, t) ==
    /\ worker[w].pc = "idle"
    /\ t \in DOMAIN queue
    /\ LET e == Payloads[t.event]
           q == Take(queue, t)
       IN IF e.field # "comments"
          THEN /\ handled' = [handled EXCEPT ![w] = Handled(t, "skipped", "Unsupported field", 0)]
               /\ queue' = q
               /\ UNCHANGED <<worker, spam_filter, spam_logs, dbfaults>>
          ELSE IF parse_raises(e)
          THEN /\ handled' = [handled EXCEPT ![w] = Handled(t, "raised", "AttributeError", 0)]
               /\ queue' = AfterRaise(q, t)
               /\ UNCHANGED <<worker, spam_filter, spam_logs, dbfaults>>
          ELSE IF missing_required(e)
          THEN /\ handled' = [handled EXCEPT ![w] = Handled(t, "error", "Missing required fields", 0)]
               /\ queue' = q
               /\ UNCHANGED <<worker, spam_filter, spam_logs, dbfaults>>
          ELSE \E p \in _check_and_handle_spam(e) :
               /\ dbfaults + p.faults <= MaxDbFaults
               /\ spam_logs' = IF p.log = "" THEN spam_logs
                               ELSE spam_logs \cup
                                    {[seq |-> Cardinality(spam_logs) + 1,
                                      comment_id |-> comment_id_of(e), status |-> p.log]}
               /\ spam_filter' = [spam_filter EXCEPT
                                     !.total_spam_detected = @ + p.detected,
                                     !.total_hidden = @ + p.hidden]
               /\ IF p.is_spam
                  THEN \* "if spam_check_result.get("is_spam"): return spam_check_result"
                       /\ handled' = [handled EXCEPT ![w] = Handled(t, "spam", p.status, 0)]
                       /\ queue' = q
                       /\ dbfaults' = dbfaults + p.faults
                       /\ UNCHANGED worker
                  ELSE LET found == SelectActive(CampaignOrder, media_id_of(e))
                       IN \/ /\ found = <<>>
                             /\ handled' = [handled EXCEPT ![w] =
                                               Handled(t, "skipped", "No active campaign", 0)]
                             /\ queue' = q
                             /\ dbfaults' = dbfaults + p.faults
                             /\ UNCHANGED worker
                          \/ /\ found # <<>>
                             /\ worker' = [worker EXCEPT ![w] =
                                   [IdleWorker EXCEPT !.pc = "rate", !.task = t, !.camps = found]]
                             /\ queue' = q
                             /\ dbfaults' = dbfaults + p.faults
                             /\ UNCHANGED handled
                          \/ \* the campaign query raises: the handler re-raises (lines 104-106)
                             /\ dbfaults + p.faults < MaxDbFaults
                             /\ dbfaults' = dbfaults + p.faults + 1
                             /\ handled' = [handled EXCEPT ![w] =
                                               Handled(t, "raised", "DatabaseError", 0)]
                             /\ queue' = AfterRaise(q, t)
                             /\ UNCHANGED worker
    /\ UNCHANGED <<now, delivered, campaigns, sent_dm_logs, gateway_calls, outcomes>>
    /\ UNCHANGED <<qvars, xvars>>

\* _process_single_campaign line 251: campaign.can_send_more()
rate_check(w) ==
    /\ worker[w].pc = "rate"
    /\ LET c == Head(worker[w].camps)
           existing == PairRows(c.id, comment_id_of(Payloads[worker[w].task.event]))
       IN worker' = [worker EXCEPT
             ![w].pc = "insert",
             ![w].can = can_send_more(c, sent_dm_logs, now),
             ![w].pre = IF existing = {} THEN "none"
                        ELSE (CHOOSE r \in existing : TRUE).status]
    /\ UNCHANGED <<now, queue, delivered, campaigns, sent_dm_logs,
                   spam_filter, spam_logs, gateway_calls, handled, outcomes, dbfaults>>
    /\ UNCHANGED <<qvars, xvars>>

\* lines 255-283: SentDMLog.objects.create with status SKIPPED or PENDING
insert_log(w) ==
    /\ worker[w].pc = "insert"
    /\ LET c == Head(worker[w].camps)
           t == worker[w].task
           cm == comment_id_of(Payloads[t.event])
           row == [seq |-> Cardinality(PairRows(c.id, cm)) + 1,
                   campaign |-> c.id,
                   comment_id |-> cm,
                   status |-> IF worker[w].can THEN "pending" ELSE "skipped",
                   created_at |-> now]
       IN \/ /\ unique_campaign_comment(sent_dm_logs, c.id, cm)
             /\ sent_dm_logs' = sent_dm_logs \cup {row}
             /\ UNCHANGED dbfaults
             /\ IF worker[w].can
                THEN /\ worker' = [worker EXCEPT ![w].pc = "send", ![w].log = <<c.id, cm, row.seq>>]
                     /\ UNCHANGED <<handled, outcomes>>
                ELSE Return(w, "skipped", "Hourly limit reached")
          \/ /\ ~ unique_campaign_comment(sent_dm_logs, c.id, cm)
             \* IntegrityError, caught by the outer except
             /\ Return(w, "error", "IntegrityError")
             /\ UNCHANGED <<sent_dm_logs, dbfaults>>
          \/ /\ dbfaults < MaxDbFaults
             /\ dbfaults' = dbfaults + 1
             /\ Return(w, "error", "DatabaseError")
             /\ UNCHANGED sent_dm_logs
    /\ UNCHANGED <<now, queue, delivered, campaigns, spam_filter, spam_logs,
                   gateway_calls>>
    /\ UNCHANGED <<qvars, xvars>>

\* lines 286-304 and 319-334: connection check, gateway call, mark_as_sent / mark_as_failed
send_dm(w) ==
    /\ worker[w].pc = "send"
    /\ LET c == Head(worker[w].camps)
           t == worker[w].task
           id == worker[w].log
           call == [campaign |-> c.id, comment_id |-> comment_id_of(Payloads[t.event]), seq |-> id[3],
                    created_at |-> (CHOOSE r \in sent_dm_logs :
                                       <<r.campaign, r.comment_id, r.seq>> = id).created_at]
       IN IF c.conn_status # "active" \/ ~ quota_allows_send(usage_counters, CampaignWorkspace(c.id))
          THEN /\ UNCHANGED gateway_calls
               /\ \/ /\ sent_dm_logs' = SetLog(sent_dm_logs, id, "failed")
                     /\ worker' = [worker EXCEPT ![w].pc = "count_failed"]
                     /\ UNCHANGED <<handled, outcomes, dbfaults>>
                  \/ \* mark_as_failed raises
                     /\ dbfaults < MaxDbFaults
                     /\ dbfaults' = dbfaults + 1
                     /\ Return(w, "error", "DatabaseError")
                     /\ UNCHANGED sent_dm_logs
          ELSE /\ gateway_calls' = gateway_calls \cup {call}
               /\ \/ \* the gateway accepts the message
                     /\ sent_dm_logs' = SetLog(sent_dm_logs, id, "sent")
                     /\ worker' = [worker EXCEPT ![w].pc = "count_sent"]
                     /\ UNCHANGED <<handled, outcomes, dbfaults>>
                  \/ \* the gateway call raises, or mark_as_sent raises: inner except
                     /\ \/ UNCHANGED dbfaults
                        \/ /\ dbfaults < MaxDbFaults
                           /\ dbfaults' = dbfaults + 1
                     /\ sent_dm_logs' = SetLog(sent_dm_logs, id, "failed")
                     /\ worker' = [worker EXCEPT ![w].pc = "count_failed"]
                     /\ UNCHANGED <<handled, outcomes>>
                  \/ \* the gateway call raises and mark_as_failed raises too
                     /\ dbfaults < MaxDbFaults
                     /\ dbfaults' = dbfaults + 1
                     /\ Return(w, "error", "DatabaseError")
                     /\ UNCHANGED sent_dm_logs
    /\ UNCHANGED <<now, queue, delivered, campaigns, spam_filter, spam_logs>>
    /\ UNCHANGED <<qvars, xvars>>

\* lines 305 and 291/335: campaign.increment_sent() / campaign.increment_failed()
\* save the loaded instance's counter plus one
count(w) ==
    /\ worker[w].pc \in {"count_sent", "count_failed"}
    /\ LET c == Head(worker[w].camps)
           id == worker[w].log
       IN IF worker[w].pc = "count_sent"
          THEN \/ /\ campaigns' = [campaigns EXCEPT ![c.id].total_sent = c.total_sent + 1]
                  /\ Return(w, "sent", "")
                  /\ UNCHANGED <<sent_dm_logs, dbfaults>>
               \/ \* increment_sent raises inside the try: the inner except marks the log failed
                  /\ dbfaults < MaxDbFaults
                  /\ dbfaults' = dbfaults + 1
                  /\ sent_dm_logs' = SetLog(sent_dm_logs, id, "failed")
                  /\ worker' = [worker EXCEPT ![w].pc = "count_failed"]
                  /\ UNCHANGED <<campaigns, handled, outcomes>>
          ELSE \/ /\ campaigns' = [campaigns EXCEPT ![c.id].total_failed = c.total_failed + 1]
                  /\ Return(w, "failed", "")
                  /\ UNCHANGED <<sent_dm_logs, dbfaults>>
               \/ \* increment_failed raises: outer except
                  /\ dbfaults < MaxDbFaults
                  /\ dbfaults' = dbfaults + 1
                  /\ Return(w, "error", "DatabaseError")
                  /\ UNCHANGED <<campaigns, sent_dm_logs>>
    /\ UNCHANGED <<now, queue, delivered, spam_filter, spam_logs,
                   gateway_calls>>
    /\ UNCHANGED <<qvars, xvars>>

\* --------------------------------------------------------- webhook endpoint
\* request bodies of POST /webhook: text that is no JSON, a JSON array, and
\* JSON objects; a change is named by the event it carries
Arr(items) == [t |-> "arr", items |-> items]
Change(e) == [t |-> "obj", event |-> e]
Entry(changes) == [t |-> "obj", changes |-> changes]
Body(object, entry) == [valid |-> TRUE, t |-> "obj", object |-> object, entry |-> entry]

Bodies ==
    [b_not_json |-> [valid |-> FALSE],
     b_array |-> [valid |-> TRUE, t |-> "arr"],
     b_page |-> Body("page", Absent),
     b_no_entry |-> Body("instagram", Absent),
     b_entry_null |-> Body("instagram", JsonNull),
     b_cm1 |-> Body("instagram", Arr(<< Entry(Arr(<< Change("cm1") >>)) >>)),
     b_cm3_cm7 |-> Body("instagram", Arr(<< Entry(Arr(<< Change("cm3") >>)),
                                            Entry(Arr(<< Change("cm7") >>)) >>)),
     b_cm1_null |-> Body("instagram", Arr(<< Entry(Arr(<< Change("cm1"), JsonNull >>)) >>)),
     b_null_cm1 |-> Body("instagram", Arr(<< Entry(Arr(<< JsonNull, Change("cm1") >>)) >>)),
     b_cm8_cm2 |-> Body("instagram", Arr(<< Entry(Arr(<< Change("cm8"), Change("cm2") >>)) >>)),
     b_page_cm1 |-> Body("page", Arr(<< Entry(Arr(<< Change("cm1") >>)) >>))]

\* dict.get(key, []) of a member that is absent, null or a list
ItemsOf(v) == IF v.t = "arr" THEN v.items ELSE <<>>

NoResponse == [status |-> 0]

respond_no_decode_handler(valid, raised) ==
    IF ~ valid \/ raised THEN [status |-> 500, body |-> "Error"]
    ELSE [status |-> 200, body |-> "EVENT_RECEIVED"]

\* the three returns of the POST branch (lines 1590-1598)
respond(valid, raised) ==
    IF ~ valid THEN [status |-> 400, body |-> "Invalid JSON"]
    ELSE IF raised THEN [status |-> 500, body |-> "Error"]
    ELSE [status |-> 200, body |-> "EVENT_RECEIVED"]

\* "if field == "comments":" (line 1575)
queues_task(field) == field = "comments"

RECURSIVE WalkChanges(_, _, _)
\* "for change in changes": the events queued so far and whether the loop raised
WalkChanges(changes, broker_up, acc) ==
    IF changes = <<>> THEN [queued |-> acc, raised |-> FALSE]
    ELSE LET change == Head(changes)
         IN IF change.t = "null"
            THEN [queued |-> acc, raised |-> TRUE]      \* change.get on None
            ELSE IF queues_task(Payloads[change.event].field)
            THEN (IF ~ broker_up
                  THEN [queued |-> acc, raised |-> TRUE]    \* .delay() cannot reach the broker
                  ELSE IF Payloads[change.event].value = JsonNull
                  THEN \* queued, then value.get('id') in the log line raises
                       [queued |-> Append(acc, change.event), raised |-> TRUE]
                  ELSE WalkChanges(Tail(changes), broker_up, Append(acc, change.event)))
            ELSE WalkChanges(Tail(changes), broker_up, acc)

RECURSIVE WalkEntries(_, _, _)
\* "for entry in entries"
WalkEntries(entries, broker_up, acc) ==
    IF entries = <<>> THEN [queued |-> acc, raised |-> FALSE]
    ELSE LET entry == Head(entries)
         IN IF entry.t = "null" \/ entry.changes.t = "null"
            THEN [queued |-> acc, raised |-> TRUE]
            ELSE LET done == WalkChanges(ItemsOf(entry.changes), broker_up, acc)
                 IN IF done.raised THEN done
                    ELSE WalkEntries(Tail(entries), broker_up, done.queued)

\* the body of the try block (lines 1549-1588) on a parsed payload
WalkPayload(payload, broker_up) ==
    IF payload.t # "obj" THEN [queued |-> <<>>, raised |-> TRUE]   \* payload.get on a list
    ELSE IF payload.object # "instagram" THEN [queued |-> <<>>, raised |-> FALSE]
    ELSE IF payload.entry.t = "null" THEN [queued |-> <<>>, raised |-> TRUE]
    ELSE WalkEntries(ItemsOf(payload.entry), broker_up, <<>>)

RECURSIVE PutAll(_, _)
PutAll(q, events) ==
    IF events = <<>> THEN q
    ELSE PutAll(Put(q, [event |-> Head(events), retries |-> 0]), Tail(events))

RECURSIVE CountAll(_, _)
CountAll(d, events) ==
    IF events = <<>> THEN d
    ELSE CountAll([d EXCEPT ![Head(events)] = @ + 1], Tail(events))

WInit ==
    /\ http_response = NoResponse
    /\ posts = 0

\* instagram_webhook, POST branch; broker_up: can the task be handed to the broker
instagram_webhook(b, broker_up) ==
    /\ posts < MaxPosts
    /\ posts' = posts + 1
    /\ LET body == Bodies[b]
           done == IF body.valid THEN WalkPayload(body, broker_up)
                   ELSE [queued |-> <<>>, raised |-> FALSE]
       IN /\ queue' = PutAll(queue, done.queued)
          /\ delivered' = CountAll(delivered, done.queued)
          /\ http_response' = [request |-> b, broker_up |-> broker_up]
                              @@ respond(body.valid, done.raised)
    /\ UNCHANGED <<now, worker, campaigns, sent_dm_logs, spam_filter, spam_logs,
                   gateway_calls, handled, outcomes, dbfaults>>
    /\ UNCHANGED <<qvars, pvars, ovars, cvars>>

WNext ==
    \/ \E b \in DOMAIN Bodies, broker_up \in BOOLEAN : instagram_webhook(b, broker_up)
    \/ \E w \in Workers, t \in DOMAIN queue : task_start(w, t)
    \/ \E w \in Workers : rate_check(w)
    \/ \E w \in Workers : insert_log(w)
    \/ \E w \in Workers : send_dm(w)
    \/ \E w \in Workers : count(w)

\* ------------------------------------------------------------ campaign API
\* max_sends_per_hour values an owner submits
OwnerRates == {0, 2}
OwnerOps == {"update", "partial_update", "pause", "resume"}

NoRequest == [pc |-> "idle", last |-> ""]

\* a campaign id for which no row has been created yet
AbsentCampaign ==
    [media_id |-> "", status |-> "absent", max_sends_per_hour |-> 0,
     total_sent |-> 0, total_failed |-> 0, conn_status |-> "active"]

\* campaign cA exists, cB has not been created
OwnerCampaigns == [InitCampaigns("active") EXCEPT !["cB"] = AbsentCampaign]

\* AutoDMCampaignCreateSerializer.max_sends_per_hour: min_value=1, max_value=500
create_accepts(rate) == rate >= 1 /\ rate <= 500

\* AutoDMCampaignSerializer (ModelSerializer): max_sends_per_hour is a plain
\* IntegerField of the model, every 32-bit integer validates
update_accepts(rate) == rate >= -2147483647 - 1 /\ rate <= 2147483647

OInit ==
    /\ owner = NoRequest
    /\ oreqs = 0

\* AutoDMCampaignViewSet.create
owner_create(c, media_id, rate) ==
    /\ owner.pc = "idle"
    /\ oreqs < MaxOwnerReqs
    /\ campaigns[c].status = "absent"
    /\ oreqs' = oreqs + 1
    /\ IF create_accepts(rate)
       THEN /\ campaigns' = [campaigns EXCEPT ![c] =
                  [media_id |-> media_id, status |-> "active", max_sends_per_hour |-> rate,
                   total_sent |-> 0, total_failed |-> 0, conn_status |-> "active"]]
            /\ owner' = [pc |-> "idle", last |-> "201"]
       ELSE /\ owner' = [pc |-> "idle", last |-> "400"]
            /\ UNCHANGED campaigns
    /\ UNCHANGED <<now, queue, delivered, worker, sent_dm_logs, spam_filter, spam_logs,
                   gateway_calls, handled, outcomes, dbfaults>>
    /\ UNCHANGED <<qvars, pvars, wvars, cvars>>

\* update / partial_update / pause / resume, first step: campaign = self.get_object()
owner_load(c, op, rate) ==
    /\ owner.pc = "idle"
    /\ oreqs < MaxOwnerReqs
    /\ campaigns[c].status # "absent"
    /\ op \in {"pause", "resume"} => rate = 0
    /\ oreqs' = oreqs + 1
    /\ owner' = [pc |-> "loaded", last |-> "", op |-> op, target |-> c,
                 instance |-> campaigns[c], rate |-> rate]
    /\ UNCHANGED <<now, queue, delivered, worker, campaigns, sent_dm_logs, spam_filter,
                   spam_logs, gateway_calls, handled, outcomes, dbfaults>>
    /\ UNCHANGED <<qvars, pvars, wvars, cvars>>

\* second step: serializer.save() / campaign.save() writes every column of the
\* loaded instance
owner_save ==
    /\ owner.pc = "loaded"
    /\ LET inst == owner.instance
           changed == IF owner.op = "pause" THEN [inst EXCEPT !.status = "paused"]
                      ELSE IF owner.op = "resume" THEN [inst EXCEPT !.status = "active"]
                      ELSE [inst EXCEPT !.max_sends_per_hour = owner.rate]
       IN IF owner.op \in {"update", "partial_update"} /\ ~ update_accepts(owner.rate)
          THEN /\ owner' = [pc |-> "idle", last |-> "400"]
               /\ UNCHANGED campaigns
          ELSE /\ owner' = [pc |-> "idle", last |-> "200"]
               /\ campaigns' = [campaigns EXCEPT ![owner.target] = changed]
    /\ UNCHANGED <<now, queue, delivered, worker, sent_dm_logs, spam_filter, spam_logs,
                   gateway_calls, handled, outcomes, dbfaults, oreqs>>
    /\ UNCHANGED <<qvars, pvars, wvars, cvars>>

ONext ==
    \/ \E c \in CampaignIds, rate \in OwnerRates : owner_create(c, "m1", rate)
    \/ \E c \in CampaignIds, op \in OwnerOps, rate \in OwnerRates : owner_load(c, op, rate)
    \/ owner_save
    \/ delay("cm1", MaxOwnerTasks)
    \/ \E w \in Workers, t \in DOMAIN queue : task_start(w, t)
    \/ \E w \in Workers : rate_check(w)
    \/ \E w \in Workers : insert_log(w)
    \/ \E w \in Workers : send_dm(w)
    \/ \E w \in Workers : count(w)

\* the ledger across months, the webhook endpoint and the campaign API at rest
XInit == PInit /\ WInit /\ OInit /\ CInit

\* the events of two ordinary comments on media m1
CommentEvents == {"cm1", "cm2"}

DNext ==
    \/ \E e \in CommentEvents : delay(e, MaxTasks)
    \/ tick
    \/ \E w \in Workers, t \in DOMAIN queue : task_start(w, t)
    \/ \E w \in Workers : rate_check(w)
    \/ \E w \in Workers : insert_log(w)
    \/ \E w \in Workers : send_dm(w)
    \/ \E w \in Workers : count(w)

\* initial state: empty ledger, campaign cA with a verified or expired connection
Init == QInit /\ DInit /\ XInit

Spec == Init /\ [][DNext]_vars

RNext ==
    \/ \E e \in Events : delay(e, MaxRouted)
    \/ tick
    \/ \E w \in Workers, t \in DOMAIN queue : task_start(w, t)
    \/ \E w \in Workers : rate_check(w)
    \/ \E w \in Workers : insert_log(w)
    \/ \E w \in Workers : send_dm(w)
    \/ \E w \in Workers : count(w)

\* as Init, with the spam filter active or inactive
InitRouter == QInit /\ RInit /\ XInit

SpecRouter == InitRouter /\ [][RNext]_vars

InitQuota == QInit /\ DInitWith("active", "active") /\ XInit

SpecQuota == InitQuota /\ [][QNext]_vars

SpecPeriods == InitQuota /\ [][PNext]_vars

SpecReads == InitQuota /\ [][ReadNext]_vars

\* two campaigns of different connections watch media m1 and are both active
FanoutCampaigns(conn_a, conn_b) ==
    [c \in CampaignIds |->
        [InitCampaigns(IF c = "cA" THEN conn_a ELSE conn_b)[c] EXCEPT
            !.media_id = "m1", !.status = "active"]]

FInit ==
    /\ now = 0
    /\ queue = <<>>
    /\ delivered = [e \in Events |-> 0]
    /\ worker = [w \in Workers |-> IdleWorker]
    /\ \E conn_a \in {"active", "expired"}, conn_b \in {"active", "expired"} :
          campaigns = FanoutCampaigns(conn_a, conn_b)
    /\ sent_dm_logs = {}
    /\ spam_filter = InitSpamFilter("active")
    /\ spam_logs = {}
    /\ gateway_calls = {}
    /\ handled = [w \in Workers |-> NoOutcome]
    /\ outcomes = [w \in Workers |-> NoOutcome]
    /\ dbfaults = 0

FNext ==
    \/ \E e \in CommentEvents : delay(e, MaxFanTasks)
    \/ \E w \in Workers, t \in DOMAIN queue : task_start(w, t)
    \/ \E w \in Workers : rate_check(w)
    \/ \E w \in Workers : insert_log(w)
    \/ \E w \in Workers : send_dm(w)
    \/ \E w \in Workers : count(w)

InitFanout == QInit /\ FInit /\ XInit

SpecFanout == InitFanout /\ [][FNext]_vars

SpecWebhook == InitQuota /\ [][WNext]_vars

\* as DInitWith, with campaign cB not yet created
OwnerInit ==
    /\ now = 0
    /\ queue = <<>>
    /\ delivered = [e \in Events |-> 0]
    /\ worker = [w \in Workers |-> IdleWorker]
    /\ campaigns = OwnerCampaigns
    /\ sent_dm_logs = {}
    /\ spam_filter = InitSpamFilter("active")
    /\ spam_logs = {}
    /\ gateway_calls = {}
    /\ handled = [w \in Workers |-> NoOutcome]
    /\ outcomes = [w \in Workers |-> NoOutcome]
    /\ dbfaults = 0

InitOwner == QInit /\ OwnerInit /\ XInit

SpecOwner == InitOwner /\ [][ONext]_vars

\* UsageCounter rows of the tenants: none yet, or the starter tenant at its limits
ExhaustedRow ==
    [comments_collected |-> LIMITS["starter"].comments_collected_per_month,
     dm_sent |-> LIMITS["starter"].dm_sent_per_month]

\* as Init, with the starter tenant's quota fresh or used up
InitUngated ==
    /\ usage_counters \in {[ws \in Workspaces |-> NoRow],
                            [ws \in Workspaces |-> IF ws = "ws_starter" THEN ExhaustedRow ELSE NoRow]}
    /\ qpc = [w \in QWorkers |-> "idle"]
    /\ qcall = [w \in QWorkers |-> NoCall]
    /\ qlocal = [w \in QWorkers |-> NoRow]
    /\ qcreated = [w \in QWorkers |-> FALSE]
    /\ qresult = [w \in QWorkers |-> NoResult]
    /\ batch_base = [ws \in Workspaces |-> NoRow]
    /\ ncalls = 0
    /\ DInit
    /\ XInit

\* an ordinary comment and one the spam filter flags
GateEvents == {"cm1", "cm3"}

UNext ==
    \/ \E e \in GateEvents : delay(e, MaxGateTasks)
    \/ \E w \in Workers, t \in DOMAIN queue : task_start(w, t)
    \/ \E w \in Workers : rate_check(w)
    \/ \E w \in Workers : insert_log(w)
    \/ \E w \in Workers : send_dm(w)
    \/ \E w \in Workers : count(w)

SpecUngated == InitUngated /\ [][UNext]_vars

\* a classifier call with its arguments drawn from the inputs
InitClassifier ==
    /\ QInit /\ DInitWith("active", "active") /\ PInit /\ WInit /\ OInit
    /\ classify_in \in ClassifyInputs
    /\ classify_out = NotClassified

SpecClassifier == InitClassifier /\ [][CNext]_vars

\* -------------------------------------------------------- dispatch claims
\* no task of event e waits in the broker or is held by a worker
Quiescent(e) ==
    /\ \A t \in DOMAIN queue : t.event # e
    /\ \A w \in Workers : worker[w].task = NoTask \/ worker[w].task.event # e

\* campaign c is active and watches the media of event e
Watches(c, e) ==
    /\ campaigns[c].status = "active"
    /\ ~ parse_raises(Payloads[e])
    /\ campaigns[c].media_id = media_id_of(Payloads[e])

PairCalls(c, cm) == {g \in gateway_calls : g.campaign = c /\ g.comment_id = cm}

C4_AtMostOneSendPerPair ==
    \A c \in CampaignIds, e \in CommentEvents : Cardinality(PairCalls(c, e)) <= 1

\* two workers took the same comment at the same time: both passed the rate
\* check before either inserted, one insert was refused, one send was made
C4_Witness ==
    /\ delivered["cm1"] >= 2
    /\ Cardinality(PairCalls("cA", "cm1")) = 1
    /\ \E w \in Workers :
          /\ outcomes[w] # NoOutcome
          /\ outcomes[w].comment_id = "cm1"
          /\ outcomes[w].pre = "none"
          /\ outcomes[w].reason = "IntegrityError"

\* C5: in every trailing hour at most max_sends_per_hour attempts of a campaign
\* reach the gateway.
C5_AtMostKSendsPerHour ==
    \A c \in CampaignIds, t \in 0..MaxTime :
        Cardinality({g \in gateway_calls :
                        g.campaign = c /\ g.created_at >= t - Hour /\ g.created_at <= t})
            <= campaigns[c].max_sends_per_hour

\* C6: a comment the active spam filter classifies as spam is never dispatched:
\* no SentDMLog row is created for it and the gateway is not called for it,
\* whatever happens inside the spam stage.
C6_SpamNeverDispatched ==
    \A e \in Events :
        (~ parse_raises(Payloads[e]) /\ ~ missing_required(Payloads[e])
         /\ Payloads[e].field = "comments" /\ classified_spam(Payloads[e]))
        => /\ \A r \in sent_dm_logs : r.comment_id # comment_id_of(Payloads[e])
           /\ \A g \in gateway_calls : g.comment_id # comment_id_of(Payloads[e])

\* C7 as stated: the handler is executed at most three times for one task.
C7_AtMostThreeExecutions ==
    /\ \A t \in DOMAIN queue : t.retries + 1 <= 3
    /\ \A w \in Workers : handled[w] # NoOutcome => handled[w].attempt + 1 <= 3

\* C7 amended: the handler is executed at most max_retries + 1 = 4 times for
\* one task (the first run and three retries); the fourth failure drops it.
C7_AtMostFourExecutions ==
    /\ \A t \in DOMAIN queue : t.retries + 1 <= max_retries + 1
    /\ \A w \in Workers :
          handled[w] # NoOutcome
          => /\ handled[w].attempt + 1 <= max_retries + 1
             /\ (handled[w].status = "raised" /\ handled[w].attempt = max_retries)
                => ~ handled[w].requeued

\* the payload with "from": null raised four times and is gone from the broker
C7_Witness ==
    /\ delivered["cm5"] = 1
    /\ Quiescent("cm5")
    /\ \E w \in Workers :
          /\ handled[w] # NoOutcome
          /\ handled[w].status = "raised"
          /\ handled[w].attempt = 3
          /\ ~ handled[w].requeued

\* C8: a delivery for a pair that already has a pending, sent or failed row
\* returns skipped / "already processed".
C8_AlreadyProcessedIsSkipped ==
    \A w \in Workers :
        (outcomes[w] # NoOutcome /\ outcomes[w].pre \in {"pending", "sent", "failed"})
        => /\ outcomes[w].status = "skipped"
           /\ outcomes[w].reason = "already processed"

\* a required member of the payload is missing (absent, empty or null)
RequiredMissing(p) ==
    \/ parse_raises(p)
    \/ missing_required(p)

\* the event ends the handler without dispatch: wrong field, missing fields,
\* spam, or no active campaign for its media
TerminalEvent(e) ==
    LET p == Payloads[e]
    IN \/ p.field # "comments"
       \/ RequiredMissing(p)
       \/ classified_spam(p)
       \/ SelectActive(CampaignOrder, media_id_of(p)) = <<>>

\* C9: such an event is never retried (as long as the database raised no
\* error), creates no SentDMLog row and causes no gateway call.
C9_TerminalEventsReturn ==
    \A e \in Events :
        TerminalEvent(e)
        => /\ dbfaults = 0 => \A t \in DOMAIN queue : t.event = e => t.retries = 0
           /\ \A r \in sent_dm_logs : r.comment_id # e
           /\ \A g \in gateway_calls : g.comment_id # e

RECURSIVE IdsOf(_)
\* the campaign ids of a list of campaigns or of results, in order
IdsOf(list) ==
    IF list = <<>> THEN <<>>
    ELSE << (IF "id" \in DOMAIN Head(list) THEN Head(list).id ELSE Head(list).campaign) >>
         \o IdsOf(Tail(list))

\* the active campaigns of the media of event e, in query order
Matching(e) == IdsOf(SelectActive(CampaignOrder, media_id_of(Payloads[e])))

\* C13: the handler processes every matching active campaign exactly once and
\* appends one result for it, whatever happened to the campaigns before it;
\* the completed handler reports as many results as campaigns matched.
C13_EveryCampaignOnce ==
    /\ \A w \in Workers :
          worker[w].task # NoTask
          => IdsOf(worker[w].results) \o IdsOf(worker[w].camps) = Matching(worker[w].task.event)
    /\ \A w \in Workers :
          (handled[w] # NoOutcome /\ handled[w].status = "completed")
          => handled[w].processed_campaigns = Len(Matching("cm1"))

\* the first campaign (cB) failed with a database error and left no row; the
\* second (cA) was still processed and sent its message
C13_Witness ==
    \E w \in Workers :
        /\ handled[w] # NoOutcome
        /\ handled[w].status = "completed"
        /\ handled[w].processed_campaigns = 2
        /\ delivered["cm1"] = 1
        /\ dbfaults = 1
        /\ PairRows("cB", "cm1") = {}
        /\ \E r \in PairRows("cA", "cm1") : r.status = "sent"

\* C14: a SentDMLog row whose status is sent, failed or skipped keeps that
\* status (and stays in the table) in every later state.
C14_TerminalStatesFinal ==
    [][\A r \in sent_dm_logs :
          r.status \in {"sent", "failed", "skipped"} => r \in sent_dm_logs']_vars

\* the SentDMLog row with key <<campaign, comment_id, seq>>
LogRow(rows, key) == CHOOSE r \in rows : <<r.campaign, r.comment_id, r.seq>> = key

\* worker w stands after a failed gateway send: the connection is active, the
\* log is marked failed and no database error has been raised
AfterGatewayFailure(w) ==
    /\ worker[w].pc = "count_failed"
    /\ Head(worker[w].camps).conn_status = "active"
    /\ dbfaults = 0

\* C21: when the gateway send for a pending log fails, the handler marks the
\* log failed, increments the campaign's total_failed by exactly 1, leaves
\* total_sent unchanged, returns normally without a task retry, and no later
\* delivery of the same comment re-sends for that campaign.
C21_GatewayFailureCountedOnce ==
    [][/\ \A w \in Workers :
             (AfterGatewayFailure(w) /\ worker'[w] # worker[w] /\ dbfaults' = 0) =>
                LET c == Head(worker[w].camps).id
                IN /\ LogRow(sent_dm_logs', worker[w].log).status = "failed"
                   /\ campaigns'[c].total_failed = campaigns[c].total_failed + 1
                   /\ campaigns'[c].total_sent = campaigns[c].total_sent
                   /\ outcomes'[w].status = "failed"
                   /\ queue' = queue
       /\ \A call \in gateway_calls' \ gateway_calls :
             ~ \E r \in sent_dm_logs :
                  /\ r.campaign = call.campaign
                  /\ r.comment_id = call.comment_id
                  /\ r.status = "failed"]_vars

\* campaign.can_send_more() returned False for worker w's attempt
RateBlocked(w) == worker[w].pc = "insert" /\ ~ worker[w].can

\* C22: when the rate check blocks an attempt, the handler creates one
\* SentDMLog row with status skipped and changes nothing else: the gateway is
\* not called, total_sent and total_failed are unchanged, and no UsageCounter
\* row is read or written.
C22_BlockedAttemptOnlyLogs ==
    [][\A w \in Workers :
          (RateBlocked(w) /\ worker'[w] # worker[w] /\ dbfaults' = dbfaults) =>
             /\ \E row \in sent_dm_logs' \ sent_dm_logs :
                   /\ sent_dm_logs' = sent_dm_logs \cup {row}
                   /\ row.status = "skipped"
                   /\ row.campaign = Head(worker[w].camps).id
                   /\ row.comment_id = comment_id_of(Payloads[worker[w].task.event])
             /\ gateway_calls' = gateway_calls
             /\ campaigns' = campaigns
             /\ usage_counters' = usage_counters
             /\ usage_rows' = usage_rows]_vars

\* SentDMLog rows of campaign c created in [t - 60 minutes, t], of any status
RowsInWindow(c, t) ==
    {r \in sent_dm_logs : r.campaign = c /\ r.created_at >= t - Hour /\ r.created_at <= t}

\* C23: for an active campaign, a dispatch attempt at time t is rate-limited iff
\* the number of its SentDMLog rows of any status created in [t - 60 minutes, t]
\* is >= max_sends_per_hour; older rows never count, the window slides.
C23_SlidingWindow ==
    [][\A w \in Workers :
          (worker[w].pc = "rate" /\ worker'[w].pc = "insert"
           /\ campaigns[Head(worker[w].camps).id].status = "active") =>
             LET c == Head(worker[w].camps).id
             IN (~ worker'[w].can) <=>
                   Cardinality(RowsInWindow(c, now)) >= campaigns[c].max_sends_per_hour]_vars

\* an attempt that is not rate-limited although the campaign has max_sends_per_hour
\* rows, all of them older than 60 minutes
C23_Witness ==
    \E w \in Workers :
        /\ worker[w].pc = "insert"
        /\ worker[w].can
        /\ LET c == Head(worker[w].camps).id
           IN /\ RowsInWindow(c, now) = {}
              /\ Cardinality({r \in sent_dm_logs : r.campaign = c /\ r.created_at < now - Hour})
                    >= campaigns[c].max_sends_per_hour

\* worker w has created the pending log of an attempt whose campaign's
\* connection is not active
InactiveConnectionAttempt(w) ==
    /\ worker[w].pc = "send"
    /\ Head(worker[w].camps).conn_status # "active"

\* C24: when the campaign's connection is not active at dispatch time, the
\* pending log of the attempt is marked failed, total_failed is incremented by
\* 1, and the gateway is not called.
C24_InactiveConnectionFails ==
    [][\A w \in Workers :
          LET c == Head(worker[w].camps).id
          IN /\ (InactiveConnectionAttempt(w) /\ worker'[w] # worker[w] /\ dbfaults' = dbfaults) =>
                   /\ LogRow(sent_dm_logs', worker[w].log).status = "failed"
                   /\ gateway_calls' = gateway_calls
             /\ (worker[w].pc = "count_failed" /\ Head(worker[w].camps).conn_status # "active"
                 /\ worker'[w] # worker[w] /\ dbfaults' = dbfaults) =>
                   /\ campaigns'[c].total_failed = campaigns[c].total_failed + 1
                   /\ gateway_calls' = gateway_calls
                   /\ outcomes'[w].status = "failed"]_vars

\* no handler is in the middle of processing a campaign
NoHandlerRunning == \A w \in Workers : worker[w].pc = "idle"

RowsWithStatus(c, status) == {r \in sent_dm_logs : r.campaign = c /\ r.status = status}

\* C28: whenever no handler is in the middle of processing a campaign, each
\* campaign's total_sent equals the number of its SentDMLog rows with status
\* sent and its total_failed the number of its rows with status failed, also
\* after workers processing different comments of the campaign ran concurrently.
C28_CountersMatchLogs ==
    (NoHandlerRunning /\ dbfaults = 0) =>
        \A c \in CampaignIds :
            /\ campaigns[c].total_sent = Cardinality(RowsWithStatus(c, "sent"))
            /\ campaigns[c].total_failed = Cardinality(RowsWithStatus(c, "failed"))

\* C29: every SentDMLog row created pending reaches sent or failed: whenever
\* _process_single_campaign returns, with any outcome, its catch-all error
\* outcome included, the row it created is no longer pending.
C29_NoPendingAfterReturn ==
    [][\A w \in Workers :
          (worker[w].pc \in {"send", "count_sent", "count_failed"}
           /\ outcomes'[w] # outcomes[w]) =>
             LogRow(sent_dm_logs', worker[w].log).status \in {"sent", "failed"}]_vars

\* the (campaign, comment) pairs that have a skipped SentDMLog row
SkippedPairs == {<<r.campaign, r.comment_id>> : r \in {x \in sent_dm_logs : x.status = "skipped"}}

\* C30: once a (campaign, commentId) pair has a SentDMLog row with status
\* skipped, no later delivery of that comment results in a gateway send or a
\* new log row for that campaign, even after the rate window has free capacity.
C30_SkippedIsFinal ==
    [][\A p \in SkippedPairs :
          /\ {r \in sent_dm_logs' : r.campaign = p[1] /\ r.comment_id = p[2]} = PairRows(p[1], p[2])
          /\ ~ \E call \in gateway_calls' :
                  call.campaign = p[1] /\ call.comment_id = p[2]]_vars

\* a redelivery of a skipped comment passed the rate check when the window was
\* free again, and ended without a send: the pair still has its skipped row only
C30_Witness ==
    \E w \in Workers :
        /\ outcomes[w] # NoOutcome
        /\ outcomes[w].pre = "skipped"
        /\ outcomes[w].can
        /\ outcomes[w].status = "error"
        /\ outcomes[w].reason = "IntegrityError"
        /\ PairRows(outcomes[w].campaign, outcomes[w].comment_id) # {}
        /\ \A r \in PairRows(outcomes[w].campaign, outcomes[w].comment_id) : r.status = "skipped"
        /\ ~ \E call \in gateway_calls :
                call.campaign = outcomes[w].campaign /\ call.comment_id = outcomes[w].comment_id

\* ---------------------------------------------------------- webhook claims
\* a member that the view dereferences is null (or the payload is no object)
NullInPayload(body) ==
    \/ body.t # "obj"
    \/ /\ body.object = "instagram"
       /\ \/ body.entry.t = "null"
          \/ \E i \in DOMAIN ItemsOf(body.entry) :
                LET entry == ItemsOf(body.entry)[i]
                IN \/ entry.t = "null"
                   \/ entry.changes.t = "null"
                   \/ \E j \in DOMAIN ItemsOf(entry.changes) :
                         LET change == ItemsOf(entry.changes)[j]
                         IN \/ change.t = "null"
                            \/ /\ Payloads[change.event].field = "comments"
                               /\ Payloads[change.event].value = JsonNull

\* a comments change that the view hands to the broker
HasCommentsChange(body) ==
    /\ body.t = "obj"
    /\ body.object = "instagram"
    /\ \E i \in DOMAIN ItemsOf(body.entry) :
          LET entry == ItemsOf(body.entry)[i]
          IN /\ entry.t = "obj"
             /\ \E j \in DOMAIN ItemsOf(entry.changes) :
                   LET change == ItemsOf(entry.changes)[j]
                   IN change.t = "obj" /\ Payloads[change.event].field = "comments"

CommentsChangesOf(body) ==
    IF ~ body.valid \/ body.t # "obj" THEN {}
    ELSE IF body.object # "instagram" THEN {}
    ELSE {p \in (DOMAIN ItemsOf(body.entry)) \X (1..3) :
             LET entry == ItemsOf(body.entry)[p[1]]
             IN /\ entry.t = "obj"
                /\ p[2] \in DOMAIN ItemsOf(entry.changes)
                /\ ItemsOf(entry.changes)[p[2]].t = "obj"
                /\ Payloads[ItemsOf(entry.changes)[p[2]].event].field = "comments"}

\* tasks handed to the broker by the step
QueuedByStep == SumOver(delivered', Events) - SumOver(delivered, Events)

\* C25, as stated: for a webhook POST the number of tasks queued equals the
\* number of change records with field "comments" across all entries when the
\* envelope's object is "instagram", and is zero for any other object type;
\* change records with any other field queue nothing (the broker accepts every
\* task handed to it).
C25_OneTaskPerCommentsChange ==
    [][(posts' = posts + 1 /\ http_response'.broker_up) =>
          QueuedByStep = Cardinality(CommentsChangesOf(Bodies[http_response'.request]))]_vars

C16_PositiveRate ==
    \A c \in CampaignIds :
        campaigns[c].status # "absent" => campaigns[c].max_sends_per_hour > 0

\* C17: a campaign's stored total_sent and total_failed never decrease, also
\* when workers and owner actions that save the whole campaign row interleave
\* their read and save steps.
C17_CountersNeverDecrease ==
    [][\A c \in CampaignIds :
          /\ campaigns'[c].total_sent >= campaigns[c].total_sent
          /\ campaigns'[c].total_failed >= campaigns[c].total_failed]_vars

\* ------------------------------------------------------------ spam claims
\* C18: there is at most one SpamCommentLog row per spam-flagged comment id,
\* and total_spam_detected counts each spam comment once, even when the same
\* spam comment event is delivered more than once.
C18_OneSpamLogPerComment ==
    /\ \A r1, r2 \in spam_logs : r1.comment_id = r2.comment_id => r1 = r2
    /\ spam_filter.total_spam_detected <= Cardinality({r.comment_id : r \in spam_logs})

\* ------------------------------------------------------ classifier claims
\* the reasons the rules give for a text that is not empty: the URL reason
\* when URLs are checked and the text holds one, then one reason per keyword
\* of the list that the lowered text contains, in list order
ReasonsFor(text, keywords, check_urls) ==
    LET low == lower(text)
        Hit(k) == Contains(low, lower(k))
        hits == SelectSeq(keywords, Hit)
    IN (IF check_urls /\ _contains_url(low) THEN << <<"contains_url">> >> ELSE <<>>)
       \o [i \in 1..Len(hits) |-> <<"keyword", hits[i]>>]

ReturnedAs(reasons) ==
    /\ classify_out.reasons = reasons
    /\ classify_out.is_spam = (reasons # <<>>)

\* C19, as stated: for every text, keyword list (the empty list included) and
\* checkUrls flag, is_spam returns the URL reason followed by one reason per
\* configured keyword contained in the text, in configured order, and nothing
\* else; isSpam iff reasons is not empty; (false, []) for empty or null text.
C19_ReasonsOfConfiguredKeywords ==
    classify_out.called =>
        IF classify_in.text_null \/ classify_in.text = <<>>
        THEN ReturnedAs(<<>>)
        ELSE ReturnedAs(ReasonsFor(classify_in.text, classify_in.spam_keywords,
                                   classify_in.check_urls))

\* ---------------------------------------------------- monthly ledger claims
\* the calendar month a row belongs to, in months since year 0
RowPeriod(r) == r.year * 12 + (r.month - 1)

\* C11: in every reachable state the usage_counters table holds at most one
\* row per (workspace, year, month), also when concurrent calls find no row.
C11_OneRowPerPeriod ==
    \A r1 \in usage_rows, r2 \in usage_rows :
        (r1.workspace = r2.workspace /\ r1.year = r2.year /\ r1.month = r2.month)
        => r1.id = r2.id

\* two calls found no row and raced to create it: the loser got IntegrityError
\* from the unique index and reads the winner's row
C11_Witness ==
    \E w \in PThreads :
        /\ pthread[w].pc = "reget"
        /\ Cardinality(KeyRows(usage_rows, pthread[w].workspace,
                               pthread[w].year, pthread[w].month)) = 1

C27_ReadsOnlyCreateZeroRows ==
    [][\A w \in PThreads :
          (pthread'[w] # pthread[w] /\ pthread'[w].op \in {"check_limit", "get_usage"}) =>
             /\ usage_rows \subseteq usage_rows'
             /\ \A r \in usage_rows' \ usage_rows :
                   /\ r.comments_collected = 0
                   /\ r.dm_sent = 0
                   /\ r.workspace = pthread[w].workspace
                   /\ <<r.year, r.month>> =
                         IF pthread[w].explicit
                         THEN <<pthread[w].year, pthread[w].month>>
                         ELSE <<pthread[w].started \div 12, (pthread[w].started % 12) + 1>>]_vars

\* get_usage has created the zeroed row of a past month and check_limit has
\* answered False, while the current month's row keeps its usage
C27_Witness ==
    /\ \E w \in PThreads :
          /\ pthread[w].op = "get_usage" /\ pthread[w].explicit /\ pthread[w].pc = "done"
          /\ \E r \in usage_rows :
                /\ <<r.year, r.month>> = <<pthread[w].year, pthread[w].month>>
                /\ r.year * 12 + r.month - 1 < clock
                /\ r.dm_sent = 0
    /\ \E w \in PThreads :
          pthread[w].op = "check_limit" /\ pthread[w].pc = "done"
    /\ \E r \in usage_rows : r.dm_sent > 0

\* ----------------------------------------------------------- quota claims
Min(a, b) == IF a <= b THEN a ELSE b

BatchDone == \A w \in QWorkers : qpc[w] \in {"idle", "done"}
BatchCalls == {w \in QWorkers : qpc[w] = "done"}
BaseValue(ws, m) == IF batch_base[ws] = NoRow THEN 0 ELSE batch_base[ws][m]

\* C1: N concurrent check_and_increment(T, M, 1) calls on a limited plan that
\* start from counter c <= L succeed exactly min(N, L - c) times.
C1_ExactlyMinSucceed ==
    \A ws \in Workspaces, m \in Metrics :
        LET L == get_limit(WorkspacePlan(ws), m)
            c == BaseValue(ws, m)
            N == Cardinality(BatchCalls)
        IN (/\ BatchDone
            /\ L # -1
            /\ c <= L
            /\ \A w \in BatchCalls :
                  qcall[w] = [workspace |-> ws, metric |-> m, amount |-> 1])
           => Cardinality({w \in BatchCalls : qresult[w].status = "ok"}) = Min(N, L - c)

\* C2: a call whose loaded value plus amount exceeds the limit of a limited
\* plan raises PlanLimitExceededError(metric, limit, current, plan) and leaves
\* the stored counters as they were.
C2_RejectedWithoutMutation ==
    [][\A w \in QWorkers :
          (/\ qpc[w] = "loaded"
           /\ qpc'[w] # "loaded"
           /\ get_limit(WorkspacePlan(qcall[w].workspace), qcall[w].metric) # -1
           /\ qlocal[w][qcall[w].metric] + qcall[w].amount
                 > get_limit(WorkspacePlan(qcall[w].workspace), qcall[w].metric))
          => /\ qpc'[w] = "done"
             /\ qresult'[w] =
                   [status |-> "PlanLimitExceededError",
                    metric |-> qcall[w].metric,
                    limit |-> get_limit(WorkspacePlan(qcall[w].workspace), qcall[w].metric),
                    current |-> qlocal[w][qcall[w].metric],
                    plan |-> WorkspacePlan(qcall[w].workspace)]
             /\ \A ws \in Workspaces : Committed(ws)' = Committed(ws)]_vars

\* the starter tenant at comments_collected = 999 was refused amount 2 and still reads 999
C2_Witness ==
    \E w \in QWorkers :
        /\ qpc[w] = "done"
        /\ qcall[w] = [workspace |-> "ws_starter", metric |-> "comments_collected", amount |-> 2]
        /\ qresult[w].status = "PlanLimitExceededError"
        /\ qresult[w].current = 999
        /\ qresult[w].limit = 1000
        /\ usage_counters["ws_starter"] # NoRow
        /\ usage_counters["ws_starter"].comments_collected = 999

\* C12: a call that runs alone on the stored counter passes the limit check,
\* and then succeeds, exactly when the plan's limit is -1 or current + amount
\* is within the limit; otherwise it is rejected.
C12_SucceedsIffWithinLimit ==
    [][\A w \in QWorkers :
          /\ (/\ qpc[w] = "loaded" /\ qpc'[w] # "loaded"
              /\ \A o \in QWorkers \ {w} : qpc[o] \in {"idle", "done"}
              /\ qlocal[w] = usage_counters[qcall[w].workspace])
             => LET limit == LIMITS[WorkspacePlan(qcall[w].workspace)][PerMonth(qcall[w].metric)]
                    current == usage_counters[qcall[w].workspace][qcall[w].metric]
                    within == limit = -1 \/ current + qcall[w].amount <= limit
                IN /\ within <=> qpc'[w] = "checked"
                   /\ ~ within <=> (qpc'[w] = "done"
                                    /\ qresult'[w].status = "PlanLimitExceededError")
          /\ (qpc[w] = "checked" /\ qpc'[w] # "checked")
             => /\ qresult'[w].status = "ok"
                /\ usage_counters'[qcall[w].workspace][qcall[w].metric]
                      = qlocal[w][qcall[w].metric] + qcall[w].amount]_vars

\* the unlimited tenant is far above every finite limit and is still served
C12_Witness ==
    \E w \in QWorkers :
        /\ qpc[w] = "done"
        /\ qcall[w].workspace = "ws_enterprise"
        /\ qcall[w].metric = "comments_collected"
        /\ qresult[w].status = "ok"
        /\ usage_counters["ws_enterprise"] # NoRow
        /\ usage_counters["ws_enterprise"].comments_collected = 1998

\* C10: both counters of every row are >= 0 and never decrease.
C10_NonNegativeMonotone ==
    [][\A ws \in Workspaces, m \in Metrics :
          (usage_counters[ws] # NoRow /\ usage_counters'[ws] # NoRow)
          => /\ usage_counters'[ws][m] >= 0
             /\ usage_counters'[ws][m] >= usage_counters[ws][m]]_vars

====
